---------------------------- MODULE Spec2Model ----------------------------
(***************************************************************************)
(* print.py of Simon Tatham's Puzzle Collection: game IDs read from stdin  *)
(* are parsed by a per-game formatter and laid out on PostScript pages.    *)
(*                                                                         *)
(* A Python string is a sequence of one-character strings.  Two            *)
(* specifications share the module:                                        *)
(*   SpecDecode  one formatter's parse of one game ID, one loop iteration  *)
(*               per step (print.py lines 44-62, 95-120, 210-217,          *)
(*               273-292, 336-352, 368-384, 421-438);                      *)
(*   Spec        the whole script (print.py lines 486-601), every call of  *)
(*               a formatter taken as one evaluation of the same parsers.  *)
(***************************************************************************)
EXTENDS Integers, Sequences, FiniteSets, TLC

VARIABLES
    \* ---- one formatter call (SpecDecode) ----
    fam,          \* the game whose formatter runs
    s,            \* the game ID handed to the formatter
    dpc,          \* "parse" | "loop" | "check" | "returned" | "raised" | "idle"
    w, h,         \* the two numbers of params (c, r in solo_format; n+2, n+1 in dominosa_format)
    seed,         \* the unconsumed rest of the seed
    grid,         \* the cell list built so far
    hbarriers, vbarriers,   \* net_format's barrier lists
    rowdata,      \* pattern_format's clue groups
    iters,        \* iterations of the while loop executed so far
    lastseed,     \* the seed when the last iteration began
    lastgrid,     \* the grid when the last iteration began
    \* ---- the script (Spec) ----
    pc,           \* "args" | "read" | "preamble" | "page" | "emit" | "exit" | "hang"
    argv,         \* <<game-name, format>> (sys.argv[1:3]; <<>> when missing)
    stdin,        \* the lines on standard input
    formatter,    \* the game whose formatter was selected
    xx, yy, ppp,  \* columns, rows, puzzles per page
    ids,          \* the game IDs read
    pages,        \* number of pages
    i,            \* the page being produced
    puzzle_index, \* next game ID to format
    fragments,    \* fragments[y][x]: 0 for '', else 1 + index of the game ID drawn there
    lrbound, tbbound,   \* per-column (left,right) and per-row (top,bottom) envelopes
    clip,         \* <<width, height>> of the clip rectangle the last page was printed on
    placed,       \* where the fragments of the last page were put on that rectangle
    out,          \* what was written to stdout
    err,          \* what was written to stderr
    exitcode      \* -1 while running

decVars == <<fam, s, dpc, w, h, seed, grid, hbarriers, vbarriers, rowdata,
             iters, lastseed, lastgrid>>
mainVars == <<pc, argv, stdin, formatter, xx, yy, ppp, ids, pages, i,
              puzzle_index, fragments, lrbound, tbbound, clip, placed, out, err,
              exitcode>>
vars == <<decVars, mainVars>>

-----------------------------------------------------------------------------
(* Bounds of the model *)

\* most pieces (characters, bracketed numbers) of a seed handed to a formatter
\* in SpecDecode
MaxSeedLen == 3
\* iterations of a formatter's while loop that are followed
MaxIters == 5
\* most game IDs on stdin in Spec
MaxIds == 3

-----------------------------------------------------------------------------
(* Python strings and the string module *)

Max(a, b) == IF a >= b THEN a ELSE b
Min(a, b) == IF a <= b THEN a ELSE b

BoundedSeq(S, n) == UNION {[1..k -> S] : k \in 0..n}

RECURSIVE Rep(_, _)
\* [v] * n
Rep(v, n) == IF n <= 0 THEN <<>> ELSE <<v>> \o Rep(v, n - 1)

lowercase == <<"a","b","c","d","e","f","g","h","i","j","k","l","m",
               "n","o","p","q","r","s","t","u","v","w","x","y","z">>
digits == <<"0","1","2","3","4","5","6","7","8","9">>

InStr(ch, str) == \E k \in 1..Len(str) : str[k] = ch
IndexIn(ch, str) == CHOOSE k \in 1..Len(str) : str[k] = ch

\* ord() of a lowercase letter
ord(ch) == 96 + IndexIn(ch, lowercase)
DigitVal(ch) == IndexIn(ch, digits) - 1

RECURSIVE SplitAcc(_, _, _)
SplitAcc(str, sep, cur) ==
    IF str = <<>> THEN <<cur>>
    ELSE IF Head(str) = sep THEN <<cur>> \o SplitAcc(Tail(str), sep, <<>>)
    ELSE SplitAcc(Tail(str), sep, Append(cur, Head(str)))

\* string.split(str, sep), sep one character: always at least one piece
split(str, sep) == SplitAcc(str, sep, <<>>)

RECURSIVE DecVal(_, _)
DecVal(str, acc) ==
    IF str = <<>> THEN acc ELSE DecVal(Tail(str), 10 * acc + DigitVal(Head(str)))

AllDigits(str) == str # <<>> /\ \A k \in 1..Len(str) : InStr(str[k], digits)

\* string.atoi(str): an optional sign and one or more decimal digits, else ValueError
atoi(str) ==
    LET body == IF str # <<>> /\ Head(str) \in {"-", "+"} THEN Tail(str) ELSE str
    IN  IF ~AllDigits(body) THEN [ok |-> FALSE, val |-> 0]
        ELSE [ok |-> TRUE,
              val |-> IF Head(str) = "-" THEN 0 - DecVal(body, 0) ELSE DecVal(body, 0)]

hexdigits == <<"0","1","2","3","4","5","6","7","8","9","a","b","c","d","e","f">>
hexupper == <<"A","B","C","D","E","F">>

\* string.atoi(ch, 16) of one character
atoi16(ch) ==
    IF InStr(ch, hexdigits) THEN [ok |-> TRUE, val |-> IndexIn(ch, hexdigits) - 1]
    ELSE IF InStr(ch, hexupper) THEN [ok |-> TRUE, val |-> IndexIn(ch, hexupper) + 9]
    ELSE [ok |-> FALSE, val |-> 0]

RECURSIVE DigitRunLen(_)
\* how many leading characters of str are digits
DigitRunLen(str) ==
    IF str # <<>> /\ InStr(Head(str), digits) THEN 1 + DigitRunLen(Tail(str)) ELSE 0

Drop(str, n) == SubSeq(str, n + 1, Len(str))

\* Python's a % b for b # 0 (the result has the sign of b)
PyMod(a, b) == a - b * (a \div b)

-----------------------------------------------------------------------------
(* The formatters' parsers *)

\* the formatters dictionary (print.py lines 475-484); "" stands for None
formatters(name) ==
    CASE name = "net" -> "net_format"
      [] name = "rect" -> "rect_format"
      [] name = "rectangles" -> "rect_format"
      [] name = "pattern" -> "pattern_format"
      [] name = "solo" -> "solo_format"
      [] name = "dominosa" -> "dominosa_format"
      [] name = "slant" -> "slant_format"
      [] name = "lightup" -> "lightup_format"
      [] OTHER -> ""

Formatters == {"net_format", "rect_format", "pattern_format", "solo_format",
               "dominosa_format", "slant_format", "lightup_format"}

NoParams == [ok |-> FALSE, w |-> 0, h |-> 0, seed |-> <<>>]

\* w, h = map(string.atoi, string.split(params, "x")): ValueError from atoi on a
\* piece that is no number, or from the unpacking when there are not two pieces
ParseWH(params, sd) ==
    LET parts == split(params, "x")
        nums == [k \in 1..Len(parts) |-> atoi(parts[k])]
    IN  IF (\E k \in 1..Len(parts) : ~nums[k].ok) \/ Len(parts) # 2 THEN NoParams
        ELSE [ok |-> TRUE, w |-> nums[1].val, h |-> nums[2].val, seed |-> sd]

\* net_format strips a trailing "w" (wrapping) from params first (lines 100-104)
NetParams(params) ==
    IF params # <<>> /\ params[Len(params)] = "w"
    THEN SubSeq(params, 1, Len(params) - 1) ELSE params

\* dominosa_format: n = string.atoi(params); w = n+2; h = n+1 (lines 340-342)
DominosaWH(params, sd) ==
    LET n == atoi(params)
    IN  IF ~n.ok THEN NoParams
        ELSE [ok |-> TRUE, w |-> n.val + 2, h |-> n.val + 1, seed |-> sd]

\* params, seed = string.split(str, ":") and the numbers of params
ParseParams(f, str) ==
    LET parts == split(str, ":")
    IN  IF Len(parts) # 2 THEN NoParams
        ELSE IF f = "dominosa_format" THEN DominosaWH(parts[1], parts[2])
        ELSE IF f = "net_format" THEN ParseWH(NetParams(parts[1]), parts[2])
        ELSE ParseWH(parts[1], parts[2])

\* the loop state of a formatter
LoopState(sd) ==
    [seed |-> sd, grid |-> <<>>, hbarriers |-> <<>>, vbarriers |-> <<>>,
     raised |-> FALSE]

Raise(st) == [st EXCEPT !.raised = TRUE]

\* a run one cell short: ord(seed[0]) - ord('a')
SkipCount_OneShort(ch) == ord(ch) - ord("a")

\* cells a lowercase letter stands for: ord(seed[0]) - ord('a') + 1
SkipCount(ch) == ord(ch) - ord("a") + 1

\* cells an underscore adds in rect_format and solo_format: none, it is only
\* consumed (the inner if of lines 53-54 and 283-284 is false for it)
UnderscoreCells == <<>>

\* the digits branch: the longest run of digits is one number (lines 57-61)
NumberToken(st) ==
    LET n == DigitRunLen(st.seed)
    IN  [st EXCEPT !.grid = Append(@, atoi(SubSeq(st.seed, 1, n)).val),
                   !.seed = Drop(@, n)]

\* one iteration of rect_format's while loop, st.seed non-empty
rect_iter(st) ==
    LET ch == Head(st.seed)
    IN  IF ch = "_" \/ InStr(ch, lowercase)
        THEN [st EXCEPT !.grid = IF InStr(ch, lowercase)
                                 THEN @ \o Rep(-1, SkipCount(ch))
                                 ELSE @ \o UnderscoreCells,
                        !.seed = Tail(@)]
        ELSE IF InStr(ch, digits) THEN NumberToken(st)
        ELSE st

\* one iteration of solo_format's while loop
solo_iter(st) ==
    LET ch == Head(st.seed)
    IN  IF ch = "_" \/ InStr(ch, lowercase)
        THEN [st EXCEPT !.grid = IF InStr(ch, lowercase)
                                 THEN @ \o Rep(-1, SkipCount(ch))
                                 ELSE @ \o UnderscoreCells,
                        !.seed = Tail(@)]
        ELSE IF InStr(ch, digits) THEN NumberToken(st)
        ELSE st

RECURSIVE NetBarriers(_, _)
\* the inner while of net_format (lines 111-118); x = len(grid) % w raises
\* ZeroDivisionError when w is 0
NetBarriers(st, ww) ==
    IF st.seed = <<>> \/ ~(Head(st.seed) \in {"h", "v"}) THEN st
    ELSE IF ww = 0 THEN Raise(st)
    ELSE LET x == PyMod(Len(st.grid), ww)
             y == Len(st.grid) \div ww
         IN  NetBarriers(
                 IF Head(st.seed) = "h"
                 THEN [st EXCEPT !.hbarriers = Append(@, <<x, y + 1>>), !.seed = Tail(@)]
                 ELSE [st EXCEPT !.vbarriers = Append(@, <<x + 1, y>>), !.seed = Tail(@)],
                 ww)

\* grid.append(n) once the barrier letters after the digit are consumed
NetAppend(after, n) ==
    IF after.raised THEN after ELSE [after EXCEPT !.grid = Append(@, n)]

\* one iteration of net_format's while loop (lines 109-119)
net_iter(st, ww) ==
    IF ~atoi16(Head(st.seed)).ok THEN Raise(st)
    ELSE NetAppend(NetBarriers([st EXCEPT !.seed = Tail(@)], ww),
                   atoi16(Head(st.seed)).val)

\* one iteration of dominosa_format's while loop (lines 345-351)
dominosa_iter(st) ==
    LET ch == Head(st.seed)
    IN  IF ch = "["
        THEN LET parts == split(Tail(st.seed), "]")
             IN  IF Len(parts) # 2 \/ ~atoi(parts[1]).ok THEN Raise(st)
                 ELSE [st EXCEPT !.grid = Append(@, atoi(parts[1]).val),
                                 !.seed = parts[2]]
        ELSE IF ~InStr(ch, digits) THEN Raise(st)
        ELSE [st EXCEPT !.grid = Append(@, DigitVal(ch)), !.seed = Tail(@)]

\* one iteration of slant_format's while loop (lines 378-383)
slant_iter(st) ==
    LET ch == Head(st.seed)
    IN  IF InStr(ch, lowercase)
        THEN [st EXCEPT !.grid = @ \o Rep(-1, SkipCount(ch)), !.seed = Tail(@)]
        ELSE IF ch \in {"0", "1", "2", "3", "4"}
        THEN [st EXCEPT !.grid = Append(@, DigitVal(ch)), !.seed = Tail(@)]
        ELSE st

\* one iteration of lightup_format's while loop (lines 429-437)
lightup_iter(st) ==
    LET ch == Head(st.seed)
    IN  IF InStr(ch, lowercase)
        THEN [st EXCEPT !.grid = @ \o Rep(-2, SkipCount(ch)), !.seed = Tail(@)]
        ELSE IF ch = "B"
        THEN [st EXCEPT !.grid = Append(@, -1), !.seed = Tail(@)]
        ELSE IF ch \in {"0", "1", "2", "3", "4"}
        THEN [st EXCEPT !.grid = Append(@, DigitVal(ch)), !.seed = Tail(@)]
        ELSE st

Iter(f, st, ww) ==
    CASE f = "rect_format" -> rect_iter(st)
      [] f = "solo_format" -> solo_iter(st)
      [] f = "net_format" -> net_iter(st, ww)
      [] f = "dominosa_format" -> dominosa_iter(st)
      [] f = "slant_format" -> slant_iter(st)
      [] f = "lightup_format" -> lightup_iter(st)

\* every formatter asserting w * h cells
Cells_AlwaysWH(f, ww, hh) == ww * hh

\* the length the formatter's assert demands of grid (lines 62, 120, 292, 352,
\* 384, 438); pattern_format builds no grid
Cells(f, ww, hh) ==
    CASE f = "solo_format" -> (ww * hh) * (ww * hh)
      [] f = "slant_format" -> (ww + 1) * (hh + 1)
      [] OTHER -> ww * hh

\* rowdata of pattern_format (line 216)
pattern_rows(sd) ==
    LET groups == split(sd, "/")
    IN  [k \in 1..Len(groups) |-> split(groups[k], ".")]

RECURSIVE RunLoop(_, _, _)
RECURSIVE AfterIter(_, _, _, _)
\* the whole while loop: "done" when the seed is used up, "raised" when an
\* iteration raises, "spins" when an iteration changes nothing (the loop then
\* repeats that iteration for ever)
RunLoop(f, st, ww) ==
    IF st.seed = <<>> THEN [status |-> "done", st |-> st]
    ELSE AfterIter(f, st, Iter(f, st, ww), ww)

\* the loop after an iteration that took st to nx
AfterIter(f, st, nx, ww) ==
    IF nx.raised THEN [status |-> "raised", st |-> nx]
    ELSE IF nx = st THEN [status |-> "spins", st |-> st]
    ELSE RunLoop(f, nx, ww)

\* the grid pitch each formatter chooses (lines 66, 122, 221, 296, 356, 388, 442)
gridpitch(f) ==
    CASE f = "net_format" -> 24
      [] f \in {"solo_format", "dominosa_format"} -> 16
      [] OTHER -> 14

\* Python's slice index: seq[k:] starts, and seq[:k] ends, at this offset
SliceAt(k, n) == IF k < 0 THEN Max(n + k, 0) ELSE Min(k, n)

MaxLen(groups) ==
    CHOOSE m \in {Len(groups[k]) : k \in 1..Len(groups)} :
        \A k \in 1..Len(groups) : Len(groups[k]) <= m

\* ret.coords = (left, right, top, bottom) (lines 70, 130, 232-233, 299, 360, 393, 446)
Coords(f, ww, hh, rd) ==
    IF f = "pattern_format"
    THEN LET cut == SliceAt(ww, Len(rd))
             xborder == MaxLen(SubSeq(rd, cut + 1, Len(rd)))
             yborder == MaxLen(SubSeq(rd, 1, cut))
         IN  <<xborder * gridpitch(f) + 8, ww * gridpitch(f),
               yborder * gridpitch(f) + 8, hh * gridpitch(f)>>
    ELSE IF f = "solo_format"
    THEN LET pw == gridpitch(f) * (ww * hh)
         IN  <<pw \div 2, pw \div 2, pw \div 2, pw \div 2>>
    ELSE LET pw == gridpitch(f) * ww
             ph == gridpitch(f) * hh
         IN  <<pw \div 2, pw \div 2, ph \div 2, ph \div 2>>

\* the drawing code after the parse raises: reduce(max, []) in pattern_format
\* (lines 225-226), chr() of a number above 255 in solo_format (line 329)
DrawRaises(f, ww, g, rd) ==
    \/ /\ f = "pattern_format"
       /\ LET cut == SliceAt(ww, Len(rd)) IN cut = 0 \/ cut = Len(rd)
    \/ /\ f = "solo_format"
       /\ \E k \in 1..Len(g) : g[k] > 9 /\ 97 + g[k] - 10 > 255

NoCoords == <<0, 0, 0, 0>>

\* pattern_format from line 216 on, p the parsed params and rd the rowdata
PatternDrawn(f, p, rd) ==
    IF Len(rd) # p.w + p.h \/ DrawRaises(f, p.w, <<>>, rd)
    THEN [status |-> "raised", coords |-> NoCoords]
    ELSE [status |-> "ok", coords |-> Coords(f, p.w, p.h, rd)]

\* the other formatters from the end of the while loop on, r its outcome
GridDrawn(f, p, r) ==
    IF r.status # "done" THEN [status |-> r.status, coords |-> NoCoords]
    ELSE IF Len(r.st.grid) # Cells(f, p.w, p.h) \/ DrawRaises(f, p.w, r.st.grid, <<>>)
    THEN [status |-> "raised", coords |-> NoCoords]
    ELSE [status |-> "ok", coords |-> Coords(f, p.w, p.h, <<>>)]

\* a formatter after the parse p of params
Formatted(f, p) ==
    IF ~p.ok THEN [status |-> "raised", coords |-> NoCoords]
    ELSE IF f = "pattern_format" THEN PatternDrawn(f, p, pattern_rows(p.seed))
    ELSE GridDrawn(f, p, RunLoop(f, LoopState(p.seed), p.w))

\* one call formatter(str): "ok" with the coords returned, "raised" when the call
\* ends in an exception, "spins" when it never returns
Format(f, str) == Formatted(f, ParseParams(f, str))

-----------------------------------------------------------------------------
(* SpecDecode: one formatter parsing one game ID *)

\* the characters the seeds of each formatter are drawn from: the tokens of its
\* grammar and one character outside it
SeedAlphabet(f) ==
    CASE f = "rect_format" -> {"a", "b", "_", "1", "2", "A"}
      [] f = "solo_format" -> {"a", "d", "_", "1", "2", "A"}
      [] f = "net_format" -> {"1", "5", "c", "h", "v", "g"}
      [] f = "pattern_format" -> {"1", "2", ".", "/"}
      [] f = "dominosa_format" -> {"0", "1", "[", "]", "a"}
      [] f = "slant_format" -> {"a", "d", "0", "4", "5", "_"}
      [] f = "lightup_format" -> {"a", "b", "B", "0", "4", "_"}

\* the params the game IDs of each formatter are drawn from
ParamPool(f) ==
    IF f = "dominosa_format" THEN {<<"0">>, <<"1">>, <<"-", "1">>, <<"x">>}
    ELSE IF f = "net_format"
    THEN {<<"1","x","1">>, <<"2","x","1","w">>, <<"1","x","2">>, <<"0","x","1">>,
          <<"-","1","x","-","1">>, <<"2">>, <<"1","x","1","x","1">>}
    ELSE {<<"1","x","1">>, <<"2","x","1">>, <<"1","x","2">>, <<"0","x","1">>,
          <<"-","1","x","-","1">>, <<"2">>, <<"1","x","1","x","1">>}

\* game IDs that do not split at ":" into two pieces
NoColonIds == {<<"1","x","1">>, <<"1","x","1",":","a",":","a">>}

\* the pieces the seeds of each formatter are put together from: the characters
\* of SeedAlphabet and, for dominosa_format, one bracketed number of two digits
SeedTokens(f) ==
    {<<ch>> : ch \in SeedAlphabet(f)}
    \cup (IF f = "dominosa_format" THEN {<<"[", "1", "2", "]">>} ELSE {})

RECURSIVE Flatten(_)
Flatten(q) == IF q = <<>> THEN <<>> ELSE Head(q) \o Flatten(Tail(q))

DecodeIds(f) ==
    {p \o <<":">> \o Flatten(sd) : p \in ParamPool(f),
                                   sd \in BoundedSeq(SeedTokens(f), MaxSeedLen)}
    \cup NoColonIds

DecIdle ==
    /\ fam = "" /\ s = <<>> /\ dpc = "idle" /\ w = 0 /\ h = 0
    /\ seed = <<>> /\ grid = <<>> /\ hbarriers = <<>> /\ vbarriers = <<>>
    /\ rowdata = <<>> /\ iters = 0 /\ lastseed = <<>> /\ lastgrid = <<>>

MainIdle ==
    /\ pc = "idle" /\ argv = <<>> /\ stdin = <<>> /\ formatter = ""
    /\ xx = 0 /\ yy = 0 /\ ppp = 0 /\ ids = <<>> /\ pages = 0 /\ i = 0
    /\ puzzle_index = 0 /\ fragments = <<>> /\ lrbound = <<>> /\ tbbound = <<>>
    /\ clip = <<0, 0>> /\ placed = <<>> /\ out = <<>> /\ err = <<>>
    /\ exitcode = -1

InitDecode ==
    /\ fam \in Formatters
    /\ s \in DecodeIds(fam)
    /\ dpc = "parse" /\ w = 0 /\ h = 0
    /\ seed = <<>> /\ grid = <<>> /\ hbarriers = <<>> /\ vbarriers = <<>>
    /\ rowdata = <<>> /\ iters = 0 /\ lastseed = <<>> /\ lastgrid = <<>>
    /\ MainIdle

\* params, seed = string.split(s, ":") and the numbers of params
ParseId ==
    /\ dpc = "parse"
    /\ LET p == ParseParams(fam, s)
       IN  /\ dpc' = IF p.ok THEN "loop" ELSE "raised"
           /\ w' = p.w /\ h' = p.h /\ seed' = p.seed
    /\ UNCHANGED <<fam, s, grid, hbarriers, vbarriers, rowdata, iters, lastseed,
                   lastgrid, mainVars>>

\* pattern_format lines 216-217
PatternRows ==
    /\ dpc = "loop" /\ fam = "pattern_format"
    /\ rowdata' = pattern_rows(seed)
    /\ dpc' = IF Len(rowdata') = w + h THEN "returned" ELSE "raised"
    /\ UNCHANGED <<fam, s, w, h, seed, grid, hbarriers, vbarriers, iters, lastseed,
                   lastgrid, mainVars>>

CurLoop ==
    [seed |-> seed, grid |-> grid, hbarriers |-> hbarriers,
     vbarriers |-> vbarriers, raised |-> FALSE]

\* one iteration of the while loop of formatter f
LoopIter(f, nx) ==
    /\ dpc = "loop" /\ fam = f /\ seed # <<>> /\ iters < MaxIters
    /\ seed' = nx.seed /\ grid' = nx.grid
    /\ hbarriers' = nx.hbarriers /\ vbarriers' = nx.vbarriers
    /\ dpc' = IF nx.raised THEN "raised" ELSE "loop"
    /\ iters' = iters + 1
    /\ lastseed' = seed /\ lastgrid' = grid
    /\ UNCHANGED <<fam, s, w, h, rowdata, mainVars>>

RectIter == LoopIter("rect_format", rect_iter(CurLoop))
SoloIter == LoopIter("solo_format", solo_iter(CurLoop))
NetIter == LoopIter("net_format", net_iter(CurLoop, w))
DominosaIter == LoopIter("dominosa_format", dominosa_iter(CurLoop))
SlantIter == LoopIter("slant_format", slant_iter(CurLoop))
LightupIter == LoopIter("lightup_format", lightup_iter(CurLoop))

\* the assert after the loop (lines 62, 120, 292, 352, 384, 438)
AssertCells ==
    /\ dpc = "loop" /\ fam # "pattern_format" /\ seed = <<>>
    /\ dpc' = IF Len(grid) = Cells(fam, w, h) THEN "returned" ELSE "raised"
    /\ UNCHANGED <<fam, s, w, h, seed, grid, hbarriers, vbarriers, rowdata, iters,
                   lastseed, lastgrid, mainVars>>

NextDecode ==
    \/ ParseId
    \/ PatternRows
    \/ RectIter
    \/ SoloIter
    \/ NetIter
    \/ DominosaIter
    \/ SlantIter
    \/ LightupIter
    \/ AssertCells

SpecDecode == InitDecode /\ [][NextDecode]_vars

-----------------------------------------------------------------------------
(* Spec: the script *)

\* extra pieces ignored: the first two numbers of three or more are taken
ParseFormat_FirstTwo(str) ==
    LET parts == split(str, "x")
        nums == [k \in 1..Len(parts) |-> atoi(parts[k])]
    IN  IF \E k \in 1..Len(parts) : ~nums[k].ok THEN <<>>
        ELSE [k \in 1..Min(2, Len(parts)) |-> nums[k].val]

\* format = map(string.atoi, string.split(sys.argv[2], "x")), [] on ValueError
\* (lines 495-498)
ParseFormat(str) ==
    LET parts == split(str, "x")
        nums == [k \in 1..Len(parts) |-> atoi(parts[k])]
    IN  IF \E k \in 1..Len(parts) : ~nums[k].ok THEN <<>>
        ELSE [k \in 1..Len(parts) |-> nums[k].val]

\* if s[-1:] == "\n": s = s[:-1] (line 511)
StripNewline(line) ==
    IF line # <<>> /\ line[Len(line)] = "\n"
    THEN SubSeq(line, 1, Len(line) - 1) ELSE line

\* the page count rounded down: len(ids) / ppp
PageCount_RoundedDown(n, per) == n \div per

\* int((len(ids) + ppp - 1) / ppp), Python 2's floor division, ppp # 0 (line 514)
PageCount(n, per) == (n + per - 1) \div per

RECURSIVE SumPairs(_, _, _)
\* sum of a + b over the pairs bound[lo], ..., bound[hi]
SumPairs(bound, lo, hi) ==
    IF lo > hi THEN 0 ELSE bound[lo][1] + bound[lo][2] + SumPairs(bound, lo + 1, hi)

\* lines 558-563 at cell (y, x) with r what formatter(ids[puzzle_index]) gave;
\* st.status leaves "ok" when the formatter raises or never returns
StoreCell(st, y, x, r) ==
    IF r.status # "ok" THEN [st EXCEPT !.status = r.status]
    ELSE [st EXCEPT
            !.fragments[y][x] = st.puzzle_index + 1,
            !.lrbound[x] = <<Max(@[1], r.coords[1]), Max(@[2], r.coords[2])>>,
            !.tbbound[y] = <<Max(@[1], r.coords[3]), Max(@[2], r.coords[4])>>,
            !.puzzle_index = @ + 1]

\* one pass of the body of the fill loops at cell (y, x) (lines 555-563)
FillCell(st, y, x) ==
    IF st.status # "ok" \/ st.puzzle_index >= Len(ids) THEN st
    ELSE StoreCell(st, y, x, Format(formatter, ids[st.puzzle_index + 1]))

RECURSIVE FillFrom_ColumnMajor(_, _)
\* the loops nested the other way round: down each column first
FillFrom_ColumnMajor(st, k) ==
    IF xx <= 0 \/ yy <= 0 \/ k >= xx * yy THEN st
    ELSE FillFrom_ColumnMajor(FillCell(st, k % yy, k \div yy), k + 1)

RECURSIVE FillFrom(_, _)
\* the fill loops (lines 553-563) from cell number k on, in the order
\* for y in xrange(yy): for x in xrange(xx)
FillFrom(st, k) ==
    IF xx <= 0 \/ yy <= 0 \/ k >= xx * yy THEN st
    ELSE FillFrom(FillCell(st, k \div xx, k % xx), k + 1)

RECURSIVE Scale6(_)
Scale6(v) == IF v < 1000000 THEN 1 ELSE 10 * Scale6(v \div 10)

\* the number "%g" prints for an integer: six significant digits, ties to even
FormatG(v) ==
    LET a == IF v < 0 THEN 0 - v ELSE v
        sc == Scale6(a)
        q == a \div sc
        r == a % sc
        up == IF 2 * r > sc THEN 1 ELSE IF 2 * r = sc THEN q % 2 ELSE 0
        m == (q + up) * sc
    IN  IF v < 0 THEN 0 - m ELSE m

\* the numbers printed for the fragment at (y, x) (lines 577-594):
\* <<htotal, yy-y, yy+1, hbelow>> and <<wtotal, x+1, xx+1, wleft>>
\* hbelow taking the row's height above its origin for the height below it
VOffset_TopForBottom(y) ==
    <<FormatG(SumPairs(tbbound, 0, yy - 1)), yy - y, yy + 1,
      FormatG(SumPairs(tbbound, y + 1, yy - 1) + tbbound[y][1])>>

VOffset(y) ==
    <<FormatG(SumPairs(tbbound, 0, yy - 1)), yy - y, yy + 1,
      FormatG(SumPairs(tbbound, y + 1, yy - 1) + tbbound[y][2])>>

\* wleft leaving out the columns to the left
HOffset_NoColumnsBefore(x) ==
    <<FormatG(SumPairs(lrbound, 0, xx - 1)), x + 1, xx + 1, FormatG(lrbound[x][1])>>

\* wleft counting the left margin of the column twice
HOffset_LeftMarginTwice(x) ==
    <<FormatG(SumPairs(lrbound, 0, xx - 1)), x + 1, xx + 1,
      FormatG(SumPairs(lrbound, 0, x - 1) + 2 * lrbound[x][1])>>

HOffset(x) ==
    <<FormatG(SumPairs(lrbound, 0, xx - 1)), x + 1, xx + 1,
      FormatG(SumPairs(lrbound, 0, x - 1) + lrbound[x][1])>>

RECURSIVE EmitFrom(_)
\* what the emission loops (lines 568-597) print from cell number k on
EmitFrom(k) ==
    IF xx <= 0 \/ yy <= 0 \/ k >= xx * yy THEN <<>>
    ELSE LET y == k \div xx
             x == k % xx
         IN  (IF fragments[y][x] > 0
              THEN <<[op |-> "fragment",
                      args |-> <<fragments[y][x] - 1>> \o VOffset(y) \o HOffset(x)]>>
              ELSE <<>>) \o EmitFrom(k + 1)

\* "extent t sub m mul d div b add" as PostScript computes it for the printed
\* numbers off == <<t, m, d, b>>: (extent - t) * m / d + b, a real number, held
\* here as its numerator over the denominator d
PSOffset(extent, off) == (extent - off[1]) * off[2] + off[4] * off[3]

\* where the interpreter puts the origin of a printed fragment on a clip
\* rectangle c: X in units of 1/(xx+1), Y in units of 1/(yy+1); x and y are the
\* cell, read back from the multipliers printed
Place(f, c) ==
    [id |-> f.args[1],
     x |-> f.args[7] - 1,
     y |-> f.args[4] - 1 - f.args[3],
     X |-> PSOffset(c[1], SubSeq(f.args, 6, 9)),
     Y |-> PSOffset(c[2], SubSeq(f.args, 2, 5))]

\* the game names tried
GamePool ==
    {"net", "rect", "rectangles", "pattern", "solo", "dominosa", "slant",
     "lightup", "sudoku"}

\* formats naming a page shape
ShapeFormats ==
    {<<"1","x","1">>, <<"2","x","1">>, <<"1","x","2">>, <<"2","x","2">>}

\* formats of two numbers that name no page shape
OddFormats ==
    {<<"0","x","2">>, <<"-","1","x","2">>, <<"-","1","x","-","1">>}

\* formats that are not two numbers separated by an x
BadFormats ==
    {<<"2">>, <<"2","x">>, <<"a","x","2">>, <<"1","x","2","x","3">>, <<>>}

\* the game IDs tried for each formatter: IDs it formats, one it raises on and,
\* where there is one, one it never returns from
IdPool(f) ==
    CASE f = "rect_format" ->
            {<<"1","x","1",":","1">>, <<"2","x","1",":","b">>,
             <<"1","x","1",":","b">>, <<"1","x","1",":","A">>}
      [] f = "net_format" ->
            {<<"1","x","1",":","1">>, <<"2","x","1","w",":","1","h","c">>,
             <<"1","x","1",":","g">>}
      [] f = "pattern_format" ->
            {<<"1","x","1",":","1","/","1">>, <<"1","x","1",":","1",".","2","/","1">>,
             <<"1","x","1",":","1">>}
      [] f = "solo_format" ->
            {<<"1","x","1",":","1">>, <<"2","x","1",":","d">>,
             <<"1","x","1",":","b">>, <<"1","x","1",":","A">>}
      [] f = "dominosa_format" ->
            {<<"0",":","0","1">>, <<"1",":","0","[","1","2","]","1","1","1","1">>,
             <<"0",":","0","a">>}
      [] f = "slant_format" ->
            {<<"1","x","1",":","d">>, <<"2","x","1",":","f">>,
             <<"1","x","1",":","a">>, <<"1","x","1",":","5">>}
      [] f = "lightup_format" ->
            {<<"1","x","1",":","B">>, <<"1","x","2",":","a","1">>,
             <<"1","x","1",":","b">>, <<"1","x","1",":","_">>}
      [] OTHER -> {<<"1","x","1",":","1">>}

\* the clip rectangles a page is printed on
ClipPool == {<<20, 20>>, <<100, 70>>}

Lines(f, n) == {[k \in DOMAIN q |-> q[k] \o <<"\n">>] : q \in BoundedSeq(IdPool(f), n)}

Init ==
    /\ pc = "args"
    /\ \/ argv \in {<<>>, <<"rect">>}
       \/ \E g \in GamePool, f \in ShapeFormats \cup OddFormats \cup BadFormats :
              argv = <<g, f>>
    /\ IF Len(argv) = 2 /\ argv[2] \in ShapeFormats \cup OddFormats
       THEN stdin \in Lines(formatters(argv[1]), MaxIds)
       ELSE stdin \in Lines("", 1)
    /\ formatter = "" /\ xx = 0 /\ yy = 0 /\ ppp = 0 /\ ids = <<>> /\ pages = 0
    /\ i = 0 /\ puzzle_index = 0 /\ fragments = <<>> /\ lrbound = <<>>
    /\ tbbound = <<>> /\ clip = <<0, 0>> /\ placed = <<>>
    /\ out = <<>> /\ err = <<>> /\ exitcode = -1
    /\ DecIdle

\* sys.stderr.write(msg); sys.exit(1), or an uncaught exception's traceback
Die(msg) ==
    /\ err' = Append(err, msg)
    /\ exitcode' = 1
    /\ pc' = "exit"

\* lines 486-505
CheckArgs ==
    /\ pc = "args"
    /\ IF Len(argv) < 2
       THEN Die("expected two arguments") /\ UNCHANGED <<formatter, xx, yy, ppp>>
       ELSE IF formatters(argv[1]) = ""
       THEN Die("unrecognised game name") /\ UNCHANGED <<formatter, xx, yy, ppp>>
       ELSE LET format == ParseFormat(argv[2])
            IN  IF Len(format) # 2
                THEN /\ Die("expected format such as 2x3")
                     /\ formatter' = formatters(argv[1])
                     /\ UNCHANGED <<xx, yy, ppp>>
                ELSE /\ formatter' = formatters(argv[1])
                     /\ xx' = format[1] /\ yy' = format[2]
                     /\ ppp' = format[1] * format[2]
                     /\ pc' = "read"
                     /\ UNCHANGED <<err, exitcode>>
    /\ UNCHANGED <<argv, stdin, ids, pages, i, puzzle_index, fragments, lrbound,
                   tbbound, clip, placed, out, decVars>>

\* lines 507-514; the division raises ZeroDivisionError when ppp is 0
ReadIds ==
    /\ pc = "read"
    /\ ids' = [k \in DOMAIN stdin |-> StripNewline(stdin[k])]
    /\ IF ppp = 0
       THEN Die("Traceback") /\ UNCHANGED pages
       ELSE /\ pages' = PageCount(Len(stdin), ppp)
            /\ pc' = "preamble"
            /\ UNCHANGED <<err, exitcode>>
    /\ UNCHANGED <<argv, stdin, formatter, xx, yy, ppp, i, puzzle_index, fragments,
                   lrbound, tbbound, clip, placed, out, decVars>>

\* lines 516-541: the DSC comments with the page count, the prolog and setup
Preamble ==
    /\ pc = "preamble"
    /\ out' = out \o <<[op |-> "%!PS-Adobe-3.0", args |-> <<>>],
                       [op |-> "%%Pages:", args |-> <<pages>>],
                       [op |-> "%%EndSetup", args |-> <<>>]>>
    /\ puzzle_index' = 0
    /\ i' = 1
    /\ pc' = "page"
    /\ UNCHANGED <<argv, stdin, formatter, xx, yy, ppp, ids, pages, fragments,
                   lrbound, tbbound, clip, placed, err, exitcode, decVars>>

\* the script after the fill loops ended in st: on to the emission, or out by
\* the formatter's exception, or stuck in a formatter that never returns
Filled(st) ==
    /\ puzzle_index' = st.puzzle_index
    /\ fragments' = st.fragments
    /\ lrbound' = st.lrbound
    /\ tbbound' = st.tbbound
    /\ IF st.status = "ok" THEN pc' = "emit" /\ UNCHANGED <<err, exitcode>>
       ELSE IF st.status = "raised" THEN Die("Traceback")
       ELSE pc' = "hang" /\ UNCHANGED <<err, exitcode>>

\* lines 543-563: the page marker, then every cell of the page filled from ids
PageFill ==
    /\ pc = "page" /\ i <= pages
    /\ out' = out \o <<[op |-> "%%Page:", args |-> <<i, i>>],
                       [op |-> "save", args |-> <<>>]>>
    /\ Filled(FillFrom([status |-> "ok", puzzle_index |-> puzzle_index,
                        fragments |-> [y \in 0..yy-1 |-> [x \in 0..xx-1 |-> 0]],
                        lrbound |-> [x \in 0..xx-1 |-> <<0, 0>>],
                        tbbound |-> [y \in 0..yy-1 |-> <<0, 0>>]], 0))
    /\ clip' = <<0, 0>> /\ placed' = <<>>
    /\ UNCHANGED <<argv, stdin, formatter, xx, yy, ppp, ids, pages, i, decVars>>

\* the fragments frags written, and the page printed on some clip rectangle
Printed(frags) ==
    /\ out' = out \o frags \o <<[op |-> "restore showpage", args |-> <<>>]>>
    /\ \E c \in ClipPool :
           /\ clip' = c
           /\ placed' = [k \in DOMAIN frags |-> Place(frags[k], c)]

\* lines 565-599: the fragments of the page with their offsets, then
\* "restore showpage"; the page is printed on some clip rectangle
PageEmit ==
    /\ pc = "emit"
    /\ Printed(EmitFrom(0))
    /\ i' = i + 1
    /\ pc' = "page"
    /\ UNCHANGED <<argv, stdin, formatter, xx, yy, ppp, ids, pages, puzzle_index,
                   fragments, lrbound, tbbound, err, exitcode, decVars>>

\* line 601, and the script ends
Trailer ==
    /\ pc = "page" /\ i > pages
    /\ out' = Append(out, [op |-> "%%EOF", args |-> <<>>])
    /\ exitcode' = 0
    /\ pc' = "exit"
    /\ UNCHANGED <<argv, stdin, formatter, xx, yy, ppp, ids, pages, i, puzzle_index,
                   fragments, lrbound, tbbound, clip, placed, err, decVars>>

Next ==
    \/ CheckArgs
    \/ ReadIds
    \/ Preamble
    \/ PageFill
    \/ PageEmit
    \/ Trailer

Spec == Init /\ [][Next]_vars

-----------------------------------------------------------------------------
(* Properties of the parsers, checked under SpecDecode *)

\* the dimensions of the grid a formatter draws: pw = gridpitch * w and
\* ph = gridpitch * h, in solo_format pw = ph = gridpitch * cr
Width(f, ww, hh) == IF f = "solo_format" THEN ww * hh ELSE ww
Height(f, ww, hh) == IF f = "solo_format" THEN ww * hh ELSE hh

\* C1 as stated: whenever a formatter's parse succeeds, grid holds exactly
\* width * height cells, for every game.
C1_GridIsWidthTimesHeight ==
    dpc = "returned" => Len(grid) = Width(fam, w, h) * Height(fam, w, h)

\* C1 amended: after a successful parse the cell list of rect, net, dominosa
\* and lightup has w * h cells, that of solo (c * r) * (c * r) cells, that of
\* slant (w + 1) * (h + 1) cells (the vertices of the w by h grid), and pattern
\* has built no cell list but w + h clue groups.
C1_CellCountPerGame ==
    dpc = "returned" =>
        CASE fam = "pattern_format" -> grid = <<>> /\ Len(rowdata) = w + h
          [] fam = "slant_format" -> Len(grid) = (w + 1) * (h + 1)
          [] fam = "solo_format" -> Len(grid) = (w * h) * (w * h)
          [] OTHER -> Len(grid) = w * h

\* a slant ID of a 1 by 1 grid parsed into its 4 vertex cells
C1_Witness ==
    dpc = "returned" /\ fam = "slant_format" /\ w = 1 /\ h = 1 /\ Len(grid) = 4

\* C2 as stated: every iteration of a formatter's loop either consumes at least
\* one character of the seed or ends the parse in an error, so no seed keeps the
\* loop running for ever.
C2_EveryIterationConsumes ==
    [][iters' = iters + 1 => (Len(seed') < Len(seed) \/ dpc' = "raised")]_vars

SkipGames == {"rect_format", "solo_format", "slant_format", "lightup_format"}

\* the placeholder cell of each game: -2 in lightup_format, -1 elsewhere
Placeholder(f) == IF f = "lightup_format" THEN -2 ELSE -1

\* the last completed iteration began at character ch
LastIterAt(ch) ==
    iters > 0 /\ fam \in SkipGames /\ Head(lastseed) = ch

\* C10 as stated: in the games with the run-length grammar an iteration on a
\* lowercase letter appends ord(letter) - ord('a') + 1 placeholder cells and an
\* iteration on an underscore appends exactly one placeholder cell.
C10_UnderscoreAppendsOne ==
    /\ \A k \in 1..26 :
           LastIterAt(lowercase[k]) => grid = lastgrid \o Rep(Placeholder(fam), k)
    /\ LastIterAt("_") => grid = Append(lastgrid, Placeholder(fam))

\* C10 amended: an iteration on a lowercase letter appends exactly
\* ord(letter) - ord('a') + 1 placeholder cells; an underscore, which only
\* rect_format and solo_format accept, is consumed and appends no cell.
C10_UnderscoreAppendsNone ==
    /\ \A k \in 1..26 :
           LastIterAt(lowercase[k]) =>
               grid = lastgrid \o Rep(Placeholder(fam), k) /\ seed = Tail(lastseed)
    /\ (LastIterAt("_") /\ fam \in {"rect_format", "solo_format"}) =>
           grid = lastgrid /\ seed = Tail(lastseed)

\* rect_format after "b_": two placeholders from the letter, none from the
\* underscore just consumed
C10_Witness ==
    /\ fam = "rect_format" /\ LastIterAt("_")
    /\ grid = <<-1, -1>> /\ dpc = "loop"

\* the dimension part of the game ID being parsed: what stands before the first
\* ":", without the wrapping flag of net_format
DimensionPart ==
    IF fam = "net_format" THEN NetParams(split(s, ":")[1]) ELSE split(s, ":")[1]

\* str is a positive integer as string.atoi reads it
IsPositive(str) == atoi(str).ok /\ atoi(str).val > 0

\* the dimension part is exactly two positive integers separated by an "x"
DimsWellFormed ==
    /\ Len(split(DimensionPart, "x")) = 2
    /\ IsPositive(split(DimensionPart, "x")[1])
    /\ IsPositive(split(DimensionPart, "x")[2])

\* C11 as stated: a formatter's parse ends in an error whenever the dimension
\* part of the game ID is not exactly two positive integers separated by an
\* "x" (a zero or negative dimension, a missing one, more than two), whatever
\* the seed: so a parse that returns had a well-formed dimension part.
C11_BadDimensionsFail ==
    dpc = "returned" => DimsWellFormed

RECURSIVE DominoSeedOk(_)
\* str is made of inline digits and bracketed literals [<digits>] only
DominoSeedOk(str) ==
    IF str = <<>> THEN TRUE
    ELSE IF InStr(Head(str), digits) THEN DominoSeedOk(Tail(str))
    ELSE /\ Head(str) = "["
         /\ DigitRunLen(Tail(str)) >= 1
         /\ Len(str) >= DigitRunLen(Tail(str)) + 2
         /\ str[DigitRunLen(Tail(str)) + 2] = "]"
         /\ DominoSeedOk(Drop(str, DigitRunLen(Tail(str)) + 2))

\* the last completed iteration of dominosa_format's loop began on a seed of
\* inline digits and bracketed literals whose first character is in chars
DominoIterAt(chars) ==
    /\ fam = "dominosa_format" /\ iters > 0
    /\ DominoSeedOk(lastseed) /\ Head(lastseed) \in chars

\* the digits of the bracketed literal str begins with, and what follows it
LiteralDigits(str) == SubSeq(str, 2, DigitRunLen(Tail(str)) + 1)
AfterLiteral(str) == Drop(str, DigitRunLen(Tail(str)) + 2)

\* C12 as stated: in dominosa_format's loop an iteration on a bracketed literal
\* [<digits>] appends exactly one cell holding that number and consumes the
\* literal, and an iteration on an inline digit appends exactly one cell holding
\* that digit and consumes it, however many bracketed literals the seed holds
\* and wherever they stand.
C12_EveryLiteralAppendsOne ==
    /\ DominoIterAt({"["}) =>
           /\ grid = Append(lastgrid, DecVal(LiteralDigits(lastseed), 0))
           /\ seed = AfterLiteral(lastseed)
    /\ DominoIterAt({"0","1","2","3","4","5","6","7","8","9"}) =>
           /\ grid = Append(lastgrid, DigitVal(Head(lastseed)))
           /\ seed = Tail(lastseed)

-----------------------------------------------------------------------------
(* Properties of the script, checked under Spec *)

\* a page has been printed and lrbound, tbbound, fragments, clip and placed are
\* still those of that page
PagePrinted == placed # <<>>

\* the clip rectangle's extents
PW == clip[1]
PH == clip[2]

\* sums of the envelope extents of the page
wtotal == SumPairs(lrbound, 0, xx - 1)
htotal == SumPairs(tbbound, 0, yy - 1)

\* the origin the printed offsets give column x and row y of the page, in units
\* of 1/(xx+1) and 1/(yy+1)
ColOrigin(x) == PSOffset(PW, HOffset(x))
RowOrigin(y) == PSOffset(PH, VOffset(y))

\* the edges of the envelope of column x and of row y, in the same units
ColLeft(x) == ColOrigin(x) - lrbound[x][1] * (xx + 1)
ColRight(x) == ColOrigin(x) + lrbound[x][2] * (xx + 1)
RowTop(y) == RowOrigin(y) + tbbound[y][1] * (yy + 1)
RowBottom(y) == RowOrigin(y) - tbbound[y][2] * (yy + 1)

\* the gutters seen at the fragment of cell (0, 0), the first one printed: from
\* the left page edge to its column's envelope, and from its row's envelope to
\* the top page edge
GutterX == placed[1].X - lrbound[0][1] * (xx + 1)
GutterY == PH * (yy + 1) - (placed[1].Y + tbbound[0][1] * (yy + 1))

\* C3: on every printed page the space between the envelopes of adjacent
\* columns, between the first column and the left page edge and between the last
\* column and the right page edge are one and the same value, and likewise for
\* the rows; every fragment sits at the origin of its column and row.
C3_GuttersUniform ==
    PagePrinted =>
        /\ \A k \in DOMAIN placed :
               placed[k].X = ColOrigin(placed[k].x) /\ placed[k].Y = RowOrigin(placed[k].y)
        /\ ColLeft(0) = GutterX
        /\ \A x \in 0..(xx - 2) : ColLeft(x + 1) - ColRight(x) = GutterX
        /\ PW * (xx + 1) - ColRight(xx - 1) = GutterX
        /\ PH * (yy + 1) - RowTop(0) = GutterY
        /\ \A y \in 0..(yy - 2) : RowBottom(y) - RowTop(y + 1) = GutterY
        /\ RowBottom(yy - 1) = GutterY

\* a 2 by 2 page of three fragments whose columns differ in width, printed
\* with a gutter that is not zero
C3_Witness ==
    /\ PagePrinted /\ xx = 2 /\ yy = 2 /\ Len(placed) = 3
    /\ lrbound[0] # lrbound[1] /\ GutterX > 0 /\ GutterY > 0

\* the columns and rows of the page that hold a fragment
OccCols == Cardinality({x \in 0..(xx - 1) : \E y \in 0..(yy - 1) : fragments[y][x] > 0})
OccRows == Cardinality({y \in 0..(yy - 1) : \E x \in 0..(xx - 1) : fragments[y][x] > 0})

\* C4 as stated: with N the number of occupied columns (rows) of the page, the
\* gutter g satisfies g * (N + 1) + E = P, also on a partly filled page.
\* (g is GutterX / (xx + 1), so both sides are multiplied by xx + 1.)
C4_GutterByOccupied ==
    PagePrinted =>
        /\ GutterX * (OccCols + 1) + wtotal * (xx + 1) = PW * (xx + 1)
        /\ GutterY * (OccRows + 1) + htotal * (yy + 1) = PH * (yy + 1)

\* C4 amended: with N the number of columns (rows) of the page shape, occupied
\* or not, the gutter g satisfies g * (N + 1) + E = P.
\* (g * (xx + 1) is GutterX, g * (yy + 1) is GutterY.)
C4_GutterByShape ==
    PagePrinted =>
        /\ GutterX + wtotal = PW
        /\ GutterY + htotal = PH

\* a partly filled page: fewer occupied columns and rows than the shape has
C4_Witness ==
    /\ PagePrinted /\ OccCols < xx /\ OccRows < yy
    /\ PW # wtotal /\ PH # htotal

\* the fragment's own margins (left, right, top, bottom)
Margins(k) == Format(formatter, ids[placed[k].id + 1]).coords

\* the bounding boxes of fragments a and b of the page share inner points
Overlap(a, b) ==
    /\ Max(placed[a].X - Margins(a)[1] * (xx + 1), placed[b].X - Margins(b)[1] * (xx + 1))
         < Min(placed[a].X + Margins(a)[2] * (xx + 1), placed[b].X + Margins(b)[2] * (xx + 1))
    /\ Max(placed[a].Y - Margins(a)[4] * (yy + 1), placed[b].Y - Margins(b)[4] * (yy + 1))
         < Min(placed[a].Y + Margins(a)[3] * (yy + 1), placed[b].Y + Margins(b)[3] * (yy + 1))

\* C5 as stated: on every page, whatever the page extent and the margins, no
\* two distinct fragments' bounding boxes overlap.
C5_NeverOverlap ==
    \A a, b \in DOMAIN placed : a # b => ~Overlap(a, b)

\* C5 amended: on every page whose extent along each axis is at least the sum
\* of the envelope extents along that axis, no two distinct fragments' bounding
\* boxes overlap.
C5_NoOverlapWhenPageFits ==
    (PagePrinted /\ PW >= wtotal /\ PH >= htotal) =>
        \A a, b \in DOMAIN placed : a # b => ~Overlap(a, b)

\* three fragments of different sizes on a 2 by 2 page that holds them
C5_Witness ==
    /\ PagePrinted /\ PW >= wtotal /\ PH >= htotal
    /\ xx = 2 /\ yy = 2 /\ Len(placed) = 3
    /\ Margins(1) # Margins(2)

\* the script accepted the format as a page shape of at least one column and row
ShapeOk == xx >= 1 /\ yy >= 1

\* the least m with m * n >= k, for n >= 1
Ceil(k, n) == CHOOSE m \in 0..k : m * n >= k /\ (m = 0 \/ (m - 1) * n < k)

Fragments(q) == SelectSeq(q, LAMBDA e : e.op = "fragment")
Markers(q) == SelectSeq(q, LAMBDA e : e.op = "%%Page:")
Declared(q) == SelectSeq(q, LAMBDA e : e.op = "%%Pages:")

\* C6: for k game IDs and a page shape of xx columns and yy rows the preamble
\* declares ceil(k / (xx*yy)) pages and a run that ends well has printed that
\* many page markers (none for k = 0, with preamble, trailer and exit code 0);
\* a page prints a fragment for each filled cell only, so no empty cell of the
\* last page draws anything.
C6_PageCount ==
    ShapeOk =>
        /\ \A k \in DOMAIN out :
               out[k].op = "%%Pages:" => out[k].args = <<Ceil(Len(ids), xx * yy)>>
        /\ PagePrinted => Len(placed) = Min(xx * yy, Len(ids) - (i - 2) * (xx * yy))
        /\ (pc = "exit" /\ exitcode = 0) =>
               /\ Len(Declared(out)) = 1
               /\ Len(Markers(out)) = Ceil(Len(ids), xx * yy)
               /\ Len(Fragments(out)) = Len(ids)
               /\ out[Len(out)].op = "%%EOF"
        /\ (pc = "exit" /\ Len(stdin) = 0) =>
               /\ exitcode = 0
               /\ out = <<[op |-> "%!PS-Adobe-3.0", args |-> <<>>],
                          [op |-> "%%Pages:", args |-> <<0>>],
                          [op |-> "%%EndSetup", args |-> <<>>],
                          [op |-> "%%EOF", args |-> <<>>]>>

\* three game IDs on pages of two cells: two pages, the last one half empty
C6_Witness ==
    /\ pc = "exit" /\ exitcode = 0 /\ xx * yy = 2 /\ Len(ids) = 3
    /\ Len(Markers(out)) = 2 /\ Len(placed) = 1

\* the 0-based page of entry j of out: the page markers up to it, less one
PageOf(j) == Len(Markers(SubSeq(out, 1, j))) - 1

\* the places of the fragments in out
FragmentAt == {j \in DOMAIN out : out[j].op = "fragment"}

\* C7: a run that ends well has printed every game ID exactly once and in input
\* order, the ID of 0-based index p on page p div (xx*yy), in row
\* (p mod (xx*yy)) div xx and column p mod xx.
C7_RowMajorOrder ==
    (ShapeOk /\ pc = "exit" /\ exitcode = 0) =>
        /\ \A p \in 0..(Len(ids) - 1) :
               Cardinality({j \in FragmentAt : out[j].args[1] = p}) = 1
        /\ \A j, k \in FragmentAt : j < k => out[j].args[1] < out[k].args[1]
        /\ \A j \in FragmentAt :
               LET p == out[j].args[1]
               IN  /\ PageOf(j) = p \div (xx * yy)
                   /\ yy - out[j].args[3] = (p % (xx * yy)) \div xx
                   /\ out[j].args[7] - 1 = p % xx

\* three game IDs on 2 by 2 pages: the third starts the second row
C7_Witness ==
    /\ pc = "exit" /\ exitcode = 0 /\ xx = 2 /\ yy = 2 /\ Len(ids) = 3
    /\ fragments[1][0] = 3 /\ fragments[1][1] = 0

\* a number as string.atoi reads it
IsNumeral(str) ==
    /\ str # <<>>
    /\ LET body == IF Head(str) \in {"-", "+"} THEN Tail(str) ELSE str
       IN  body # <<>> /\ \A k \in 1..Len(body) : body[k] \in
               {"0", "1", "2", "3", "4", "5", "6", "7", "8", "9"}

\* a <columns>x<rows> token: two numbers with one x between them
WellFormedFormat(str) ==
    \E k \in 1..Len(str) :
        /\ str[k] = "x"
        /\ IsNumeral(SubSeq(str, 1, k - 1))
        /\ IsNumeral(SubSeq(str, k + 1, Len(str)))

GameNames ==
    {"net", "rect", "rectangles", "pattern", "solo", "dominosa", "slant", "lightup"}

\* C8: with a game name outside the fixed set, or a format that is not a
\* well-formed <columns>x<rows> token, the run ends at once with a non-zero exit
\* status and a message on stderr, and nothing is ever written to stdout.
C8_BadArgumentsAreFatal ==
    (Len(argv) = 2 /\ (argv[1] \notin GameNames \/ ~WellFormedFormat(argv[2]))) =>
        /\ out = <<>>
        /\ pc \in {"args", "exit"}
        /\ pc = "exit" => (exitcode # 0 /\ exitcode # -1 /\ err # <<>>)

\* a known game with a format of three numbers, and a game ID waiting on stdin
C8_Witness ==
    /\ pc = "exit" /\ exitcode = 1 /\ Len(argv) = 2 /\ argv[1] = "solo"
    /\ argv[2] = <<"1", "x", "2", "x", "3">> /\ stdin # <<>> /\ out = <<>>

\* the 1-based places in ids of the game IDs the formatter does not format
BadIds == {p \in DOMAIN ids : Format(formatter, ids[p]).status # "ok"}

\* C9 as stated: a game ID that fails to decode is fatal: the run stops at it
\* with exit status 1, and neither it nor any later game ID is ever printed or
\* passed over.
C9_BadIdIsFatal ==
    (ShapeOk /\ BadIds # {}) =>
        /\ \A p \in BadIds :
               /\ puzzle_index <= p - 1
               /\ \A j \in FragmentAt : out[j].args[1] < p - 1
        /\ pc # "hang"
        /\ pc = "exit" => exitcode = 1

=============================================================================
